---- MODULE Spec2Model ----
(***************************************************************************)
(* Model of src/v1/torch-engine.py: a tape-based reverse-mode autodiff     *)
(* engine.  The process-wide state is id_counter and Tape_list; Variable   *)
(* objects live on the heap (nodes).  Forward operators create a Variable  *)
(* and append a Tape record; grad replays the tape in reverse.  The        *)
(* backward rules are written with the overloaded operators, so running    *)
(* them creates Variables and appends Tape records as well.                *)
(***************************************************************************)
EXTENDS Integers, Sequences, FiniteSets, TLC

(* ---------------- bounds of the exploration ---------------- *)
MaxVal == 1        \* constructor values are drawn from MinVal..MaxVal
MaxCalls == 4      \* calls made by the caller: Variable, operators, grad, reset_tape
MaxName == 2       \* caller-supplied names "v_1".."v_MaxName"

MinVal == 0 - 1

(* ---------------- values ---------------- *)
\* A value is a Python number (tag "num", exactly n) or a numpy float64
\* produced by np.sin / np.log / np.cos or by arithmetic on one of them.
Num(n) == [tag |-> "num", n |-> n]
Sym(t, n) == [tag |-> t, n |-> n]
Float == [tag |-> "float", n |-> 0]
IsNum(v) == v.tag = "num"

VAdd(a, b) == IF IsNum(a) /\ IsNum(b) THEN Num(a.n + b.n) ELSE Float
VSub(a, b) == IF IsNum(a) /\ IsNum(b) THEN Num(a.n - b.n) ELSE Float
VMul(a, b) == IF IsNum(a) /\ IsNum(b) THEN Num(a.n * b.n) ELSE Float
\* np.sin, np.cos: always defined
VSin(a) == IF IsNum(a) THEN Sym("sin", a.n) ELSE Float
VCos(a) == IF IsNum(a) THEN Sym("cos", a.n) ELSE Float
\* np.log: nan below zero and -inf at zero (a RuntimeWarning, no exception)
VLog(a) == IF IsNum(a)
           THEN IF a.n > 0 THEN Sym("log", a.n)
                ELSE IF a.n = 0 THEN Sym("ninf", 0) ELSE Sym("nan", 0)
           ELSE Float
\* 1 / value: defined for every numpy float64 and every non-zero Python number
VInv(a) == IF IsNum(a) THEN Sym("inv", a.n) ELSE Float
DivByZero(a) == IsNum(a) /\ a.n = 0

(* ---------------- names and Variables ---------------- *)
\* f"v_{id_counter}" is modelled as the pair <<"v", id_counter>>.
IdName(k) == <<"v", k>>
NoName == <<"", 0>>                 \* name=None (or any falsy name)
NameArgs == {NoName} \cup {IdName(k) : k \in 1..MaxName}

Var(name, value) == [name |-> name, value |-> value]
NoVar == Var(NoName, Num(0))

(* ---------------- the interpreter state threaded through a call --------- *)
\* c: id_counter, t: Tape_list, h: heap of Variables created so far,
\* o: who is creating ("ctor", "op", "grad"), e: current reset epoch,
\* r: the Variable returned by the last call.
St(c, t, h, o, e) == [c |-> c, t |-> t, h |-> h, o |-> o, e |-> e, r |-> NoVar]

Tape(inputs, outputs, propagate) ==
    [inputs |-> inputs, outputs |-> outputs, propagate |-> propagate]
Closure(op, self, other) == [op |-> op, self |-> self, other |-> other]

HeapEntry(S, v) == [name |-> v.name, value |-> v.value, origin |-> S.o, epoch |-> S.e]

\* Variable.__init__ with id_generator inlined
Variable(S, value, name) ==
    IF name # NoName
    THEN LET v == Var(name, value)
         IN  [S EXCEPT !.h = Append(@, HeapEntry(S, v)), !.r = v]
    ELSE LET c2 == S.c + 1
             v == Var(IdName(c2), value)
         IN  [S EXCEPT !.c = c2, !.h = Append(@, HeapEntry(S, v)), !.r = v]

verbose_init(S, value, name) == Variable(S, value, name)

\* a BinOp that puts its record at the front of the log
BinOpAtFront(S, op, self, other, value) ==
    LET S1 == verbose_init(S, value, NoName)
        x == S1.r
    IN  [S1 EXCEPT !.t = <<Tape(<<self.name, other.name>>, <<x.name>>,
                                Closure(op, self, other))>> \o @]

\* forward operators: the new Variable, then one record appended
BinOp(S, op, self, other, value) ==
    LET S1 == verbose_init(S, value, NoName)
        x == S1.r
    IN  [S1 EXCEPT !.t = Append(@, Tape(<<self.name, other.name>>, <<x.name>>,
                                        Closure(op, self, other)))]

add_op(S, self, other) == BinOp(S, "add", self, other, VAdd(self.value, other.value))
mul_op(S, self, other) == BinOp(S, "mul", self, other, VMul(self.value, other.value))
sub_op(S, self, other) == BinOp(S, "sub", self, other, VSub(self.value, other.value))

UnOp(S, op, self, value) ==
    LET S1 == verbose_init(S, value, NoName)
        x == S1.r
    IN  [S1 EXCEPT !.t = Append(@, Tape(<<self.name>>, <<x.name>>,
                                        Closure(op, self, NoVar)))]

sin_op(S, self) == UnOp(S, "sin", self, VSin(self.value))
log_op(S, self) == UnOp(S, "log", self, VLog(self.value))

(* ---------------- operands that are not Variables ---------------- *)
\* Nothing checks the type of an operand: the operators only read its
\* attributes.  Three kinds of object other than a Variable are modelled by
\* the attributes they have: a raw number (no .value, no .name), a str (no
\* .value, no .name) and an object with .value and no .name (ctypes.c_double).
Literal(n) == Var(<<"literal", 0>>, Num(n))
Text == Var(<<"str", 0>>, Num(0))
Boxed(n) == Var(<<"c_double", 0>>, Num(n))
Foreign == {Literal(MaxVal), Text, Boxed(MaxVal)}

IsVariable(x) == x.name[1] \notin {"literal", "str", "c_double"}
HasValue(x) == x.name[1] \notin {"literal", "str"}
HasName(x) == IsVariable(x)

ArithValue(op, self, other) ==
    CASE op = "add" -> VAdd(self.value, other.value)
      [] op = "mul" -> VMul(self.value, other.value)
      [] OTHER      -> VSub(self.value, other.value)

\* "self op other" as Python evaluates it.  A left operand that is not a
\* Variable: its own type refuses and Variable has no reflected method
\* (TypeError).  Otherwise add_op / mul_op / sub_op runs: other.value is read
\* first, then the Variable is created, then other.name is read for the record.
Raised(S, outcome) == [st |-> S, outcome |-> outcome]
Dispatch(S, op, self, other) ==
    IF ~IsVariable(self) THEN Raised(S, "TypeError")
    ELSE IF ~HasValue(other) THEN Raised(S, "AttributeError")
    ELSE IF ~HasName(other)
         THEN Raised(verbose_init(S, ArithValue(op, self, other), NoName), "AttributeError")
         ELSE Raised(BinOp(S, op, self, other, ArithValue(op, self, other)), "returned")

\* Variable.sin(self), Variable.log(self) on any object
DispatchUnary(S, op, self) ==
    IF ~HasValue(self) THEN Raised(S, "AttributeError")
    ELSE LET value == IF op = "sin" THEN VSin(self.value) ELSE VLog(self.value)
         IN  IF ~HasName(self)
             THEN Raised(verbose_init(S, value, NoName), "AttributeError")
             ELSE Raised(UnOp(S, op, self, value), "returned")

(* ---------------- backward rules ---------------- *)
\* Each rule returns the interpreter state after it ran and dl_dinputs.
\* "dl_dx * dx" is Variable.__mul__, that is mul_op: a Variable is created
\* and a record is appended for every product.
Back(S, dl_dinputs) == [st |-> S, dl_dinputs |-> dl_dinputs]

add_backward(S, self, other, dl_doutputs) ==
    LET dl_dx == dl_doutputs[1]
        S1 == Variable(S, Num(1), NoName)
        dx_dself == S1.r
        S2 == Variable(S1, Num(1), NoName)
        dx_dother == S2.r
        S3 == mul_op(S2, dl_dx, dx_dself)
        S4 == mul_op(S3, dl_dx, dx_dother)
    IN  Back(S4, <<S3.r, S4.r>>)

\* a mul_backward that pairs each operand with its own value
mul_backward_own_operand(S, self, other, dl_doutputs) ==
    LET dl_dx == dl_doutputs[1]
        S1 == mul_op(S, dl_dx, self)
        S2 == mul_op(S1, dl_dx, other)
    IN  Back(S2, <<S1.r, S2.r>>)

mul_backward(S, self, other, dl_doutputs) ==
    LET dl_dx == dl_doutputs[1]
        dx_dself == other
        dx_dother == self
        S1 == mul_op(S, dl_dx, dx_dself)
        S2 == mul_op(S1, dl_dx, dx_dother)
    IN  Back(S2, <<S1.r, S2.r>>)

sub_backward(S, self, other, dl_doutputs) ==
    LET dl_dx == dl_doutputs[1]
        S1 == Variable(S, Num(1), NoName)
        dx_dself == S1.r
        S2 == Variable(S1, Num(0 - 1), NoName)
        dx_dother == S2.r
        S3 == mul_op(S2, dl_dx, dx_dself)
        S4 == mul_op(S3, dl_dx, dx_dother)
    IN  Back(S4, <<S3.r, S4.r>>)

sin_backward(S, self, dl_doutputs) ==
    LET dl_dx == dl_doutputs[1]
        S1 == Variable(S, VCos(self.value), NoName)
        S2 == mul_op(S1, dl_dx, S1.r)
    IN  Back(S2, <<S2.r>>)

\* 1 / self.value raises ZeroDivisionError for a Python zero: see Raises
log_backward(S, self, dl_doutputs) ==
    LET dl_dx == dl_doutputs[1]
        S1 == Variable(S, VInv(self.value), NoName)
        S2 == mul_op(S1, dl_dx, S1.r)
    IN  Back(S2, <<S2.r>>)

\* tabe.propagate(grad_outputs): the closure recorded by the forward operator
Propagate(S, p, grad_outputs) ==
    CASE p.op = "add" -> add_backward(S, p.self, p.other, grad_outputs)
      [] p.op = "mul" -> mul_backward(S, p.self, p.other, grad_outputs)
      [] p.op = "sub" -> sub_backward(S, p.self, p.other, grad_outputs)
      [] p.op = "sin" -> sin_backward(S, p.self, grad_outputs)
      [] OTHER        -> log_backward(S, p.self, grad_outputs)

(* ---------------- the body of grad's loop ---------------- *)
HasKey(d, k) == k \in DOMAIN d
SetKey(d, k, v) == [x \in (DOMAIN d) \cup {k} |-> IF x = k THEN v ELSE d[x]]
EmptyDict == [x \in {} |-> NoVar]

\* for input, grad in zip(tabe.inputs, grad_inputs): "+=" on a Variable is
\* Variable.__add__, that is add_op (there is no __iadd__).
RECURSIVE Accumulate(_, _, _, _, _)
Accumulate(S, d, inputs, grad_inputs, k) ==
    IF k > Len(inputs) \/ k > Len(grad_inputs)
    THEN [st |-> S, dl_d |-> d]
    ELSE LET input == inputs[k]
             g == grad_inputs[k]
         IN  IF HasKey(d, input)
             THEN LET S1 == add_op(S, d[input], g)
                  IN  Accumulate(S1, SetKey(d, input, S1.r), inputs, grad_inputs, k + 1)
             ELSE Accumulate(S, SetKey(d, input, g), inputs, grad_inputs, k + 1)

\* what the body raises for a record, if anything
Raises(d, tabe) ==
    IF \E i \in 1..Len(tabe.outputs) : ~HasKey(d, tabe.outputs[i]) THEN "KeyError"
    ELSE IF tabe.propagate.op = "log" /\ DivByZero(tabe.propagate.self.value)
         THEN "ZeroDivisionError"
         ELSE "none"

\* what one iteration read and what the backward rule returned (for `steps`)
Step(S, d, tabe, idx) ==
    LET grad_outputs == [i \in 1..Len(tabe.outputs) |-> d[tabe.outputs[i]]]
        b == Propagate(S, tabe.propagate, grad_outputs)
    IN  [idx |-> idx, tabe |-> tabe,
         grad_outputs |-> [i \in 1..Len(grad_outputs) |-> grad_outputs[i].value],
         grad_inputs |-> [i \in 1..Len(b.dl_dinputs) |-> b.dl_dinputs[i].value]]

LoopBody(S, d, tabe) ==
    LET grad_outputs == [i \in 1..Len(tabe.outputs) |-> d[tabe.outputs[i]]]
        b == Propagate(S, tabe.propagate, grad_outputs)
    IN  Accumulate(b.st, d, tabe.inputs, b.dl_dinputs, 1)

(* ---------------- state ---------------- *)
VARIABLES
    id_counter,   \* the module global id_counter
    Tape_list,    \* the module global Tape_list
    nodes,        \* every Variable constructed so far, in creation order
    epoch,        \* number of reset_tape calls so far (history)
    pc,           \* "idle", or "grad" while grad's loop is running
    l,            \* grad's argument
    dl_d,         \* grad's local dictionary
    it,           \* reversed(Tape_list): index of the next record, 0 when exhausted
    call,         \* the call in progress or the last one, with its outcome
    prev,         \* the call before it when that was a grad call (history)
    pre,          \* id_counter, Tape_list and Len(nodes) when `call` began (history)
    steps,        \* the records grad has processed in this call, in order (history)
    ncalls,       \* number of calls the caller has made (history)
    appended,     \* the records appended since the last reset_tape (history)
    threads,      \* position and locals of each thread (two-thread specification)
    raced         \* two id_generator executions have overlapped (history)

vars == <<id_counter, Tape_list, nodes, epoch, pc, l, dl_d, it, call, prev, pre, steps, ncalls,
          appended, threads, raced>>
thread_vars == <<threads, raced>>

Values == {Num(n) : n \in MinVal..MaxVal}

Call(op, self, other, outcome, ret, out) ==
    [op |-> op, self |-> self, other |-> other, outcome |-> outcome, ret |-> ret, out |-> out]
NoCall == Call("none", NoVar, NoVar, "returned", "None", EmptyDict)
Snapshot == [c |-> id_counter, t |-> Tape_list, n |-> Len(nodes)]

VarOf(nd) == Var(nd.name, nd.value)
\* the Variables the caller holds: those it constructed and those operators returned
CallerVars == {VarOf(nodes[i]) : i \in {j \in DOMAIN nodes : nodes[j].origin \in {"ctor", "op"}}}

Now(origin) == St(id_counter, Tape_list, nodes, origin, epoch)
\* the records a call appended to the log it found
Added(S) == SubSeq(S.t, Len(Tape_list) + 1, Len(S.t))

\* a thread: where it is in its program, the value and operator of the
\* Variable being created, the counter it loaded, the Variable it holds
Threads == {1, 2}
Thread(at, creating, value, op, tmp, self, x) ==
    [pc |-> at, creating |-> creating, value |-> value, op |-> op, tmp |-> tmp,
     self |-> self, x |-> x]
NoThread == Thread("ready", "none", Num(0), "none", 0, NoVar, NoVar)

Init ==
    /\ id_counter = 0
    /\ Tape_list = <<>>
    /\ nodes = <<>>
    /\ epoch = 0
    /\ pc = "idle"
    /\ l = NoVar
    /\ dl_d = EmptyDict
    /\ it = 0
    /\ call = NoCall
    /\ prev = NoCall
    /\ pre = [c |-> 0, t |-> <<>>, n |-> 0]
    /\ steps = <<>>
    /\ ncalls = 0
    /\ appended = <<>>
    /\ threads = [t \in Threads |-> NoThread]
    /\ raced = FALSE

\* the caller constructs a Variable: Variable(value, name) or Variable.verbose_init
NewVariable(value, name) ==
    /\ pc = "idle"
    /\ ncalls < MaxCalls
    /\ LET S == Variable(Now("ctor"), value, name)
       IN  /\ id_counter' = S.c
           /\ nodes' = S.h
           /\ call' = Call("Variable", S.r, NoVar, "returned", "Variable", EmptyDict)
    /\ prev' = IF call.op = "grad" THEN call ELSE NoCall
    /\ pre' = Snapshot
    /\ ncalls' = ncalls + 1
    /\ UNCHANGED <<Tape_list, epoch, pc, l, dl_d, it, steps, appended>>
    /\ UNCHANGED thread_vars

ApplyOp(op, self, other) ==
    CASE op = "add" -> add_op(Now("op"), self, other)
      [] op = "mul" -> mul_op(Now("op"), self, other)
      [] op = "sub" -> sub_op(Now("op"), self, other)
      [] op = "sin" -> sin_op(Now("op"), self)
      [] OTHER      -> log_op(Now("op"), self)

\* a + b, a * b, a - b on two Variables
Binary(op, self, other) ==
    /\ pc = "idle"
    /\ ncalls < MaxCalls
    /\ LET S == ApplyOp(op, self, other)
       IN  /\ id_counter' = S.c
           /\ Tape_list' = S.t
           /\ nodes' = S.h
           /\ appended' = appended \o Added(S)
           /\ call' = Call(op, self, other, "returned", "Variable", EmptyDict)
    /\ prev' = IF call.op = "grad" THEN call ELSE NoCall
    /\ pre' = Snapshot
    /\ ncalls' = ncalls + 1
    /\ UNCHANGED <<epoch, pc, l, dl_d, it, steps>>
    /\ UNCHANGED thread_vars

\* a.sin(), a.log() on a Variable
Unary(op, self) ==
    /\ pc = "idle"
    /\ ncalls < MaxCalls
    /\ LET S == ApplyOp(op, self, NoVar)
       IN  /\ id_counter' = S.c
           /\ Tape_list' = S.t
           /\ nodes' = S.h
           /\ appended' = appended \o Added(S)
           /\ call' = Call(op, self, NoVar, "returned", "Variable", EmptyDict)
    /\ prev' = IF call.op = "grad" THEN call ELSE NoCall
    /\ pre' = Snapshot
    /\ ncalls' = ncalls + 1
    /\ UNCHANGED <<epoch, pc, l, dl_d, it, steps>>
    /\ UNCHANGED thread_vars

\* a + b, a * b, a - b where one operand is not a Variable
BinaryForeign(op, self, other) ==
    /\ pc = "idle"
    /\ ncalls < MaxCalls
    /\ LET d == Dispatch(Now("lost"), op, self, other)
       IN  /\ id_counter' = d.st.c
           /\ Tape_list' = d.st.t
           /\ nodes' = d.st.h
           /\ appended' = appended \o Added(d.st)
           /\ call' = Call(op, self, other, d.outcome, "raise", EmptyDict)
    /\ prev' = IF call.op = "grad" THEN call ELSE NoCall
    /\ pre' = Snapshot
    /\ ncalls' = ncalls + 1
    /\ UNCHANGED <<epoch, pc, l, dl_d, it, steps>>
    /\ UNCHANGED thread_vars

\* Variable.sin(a), Variable.log(a) where a is not a Variable
UnaryForeign(op, self) ==
    /\ pc = "idle"
    /\ ncalls < MaxCalls
    /\ LET d == DispatchUnary(Now("lost"), op, self)
       IN  /\ id_counter' = d.st.c
           /\ Tape_list' = d.st.t
           /\ nodes' = d.st.h
           /\ appended' = appended \o Added(d.st)
           /\ call' = Call(op, self, NoVar, d.outcome, "raise", EmptyDict)
    /\ prev' = IF call.op = "grad" THEN call ELSE NoCall
    /\ pre' = Snapshot
    /\ ncalls' = ncalls + 1
    /\ UNCHANGED <<epoch, pc, l, dl_d, it, steps>>
    /\ UNCHANGED thread_vars

\* a reset_tape that restarts the counter and keeps the log
reset_tape_keeps_log ==
    /\ pc = "idle"
    /\ ncalls < MaxCalls
    /\ id_counter' = 0
    /\ epoch' = epoch + 1
    /\ appended' = <<>>
    /\ call' = Call("reset_tape", NoVar, NoVar, "returned", "None", EmptyDict)
    /\ prev' = IF call.op = "grad" THEN call ELSE NoCall
    /\ pre' = Snapshot
    /\ ncalls' = ncalls + 1
    /\ UNCHANGED <<Tape_list, nodes, pc, l, dl_d, it, steps>>
    /\ UNCHANGED thread_vars

reset_tape ==
    /\ pc = "idle"
    /\ ncalls < MaxCalls
    /\ id_counter' = 0
    /\ Tape_list' = <<>>
    /\ epoch' = epoch + 1
    /\ appended' = <<>>
    /\ call' = Call("reset_tape", NoVar, NoVar, "returned", "None", EmptyDict)
    /\ prev' = IF call.op = "grad" THEN call ELSE NoCall
    /\ pre' = Snapshot
    /\ ncalls' = ncalls + 1
    /\ UNCHANGED <<nodes, pc, l, dl_d, it, steps>>
    /\ UNCHANGED thread_vars

\* grad(l, results) up to the creation of the reverse iterator
GradBegin(terminal) ==
    /\ pc = "idle"
    /\ ncalls < MaxCalls
    /\ LET S == Variable(Now("grad"), Num(1), NoName)
       IN  /\ id_counter' = S.c
           /\ nodes' = S.h
           /\ dl_d' = SetKey(EmptyDict, terminal.name, S.r)
    /\ l' = terminal
    /\ it' = Len(Tape_list)
    /\ pc' = "grad"
    /\ call' = Call("grad", terminal, NoVar, "running", "None", EmptyDict)
    /\ prev' = IF call.op = "grad" THEN call ELSE NoCall
    /\ pre' = Snapshot
    /\ steps' = <<>>
    /\ ncalls' = ncalls + 1
    /\ UNCHANGED <<Tape_list, epoch, appended>>
    /\ UNCHANGED thread_vars

\* one iteration of "for tabe in reversed(Tape_list)"
GradStep ==
    /\ pc = "grad"
    /\ it >= 1
    /\ Raises(dl_d, Tape_list[it]) = "none"
    /\ LET tabe == Tape_list[it]
           b == LoopBody(Now("grad"), dl_d, tabe)
       IN  /\ id_counter' = b.st.c
           /\ Tape_list' = b.st.t
           /\ nodes' = b.st.h
           /\ dl_d' = b.dl_d
           /\ steps' = Append(steps, Step(Now("grad"), dl_d, tabe, it))
           /\ appended' = appended \o Added(b.st)
    /\ it' = it - 1
    /\ UNCHANGED <<epoch, pc, l, call, prev, pre, ncalls>>
    /\ UNCHANGED thread_vars

\* an iteration that raises: the exception leaves grad
GradRaise ==
    /\ pc = "grad"
    /\ it >= 1
    /\ Raises(dl_d, Tape_list[it]) # "none"
    /\ call' = [call EXCEPT !.outcome = Raises(dl_d, Tape_list[it]), !.ret = "raise"]
    /\ pc' = "idle"
    /\ dl_d' = EmptyDict
    /\ it' = 0
    /\ l' = NoVar
    /\ UNCHANGED <<id_counter, Tape_list, nodes, epoch, prev, pre, steps, ncalls, appended>>
    /\ UNCHANGED thread_vars

\* the loop is exhausted: print every entry of dl_d and return None
GradReturn ==
    /\ pc = "grad"
    /\ it = 0
    /\ call' = [call EXCEPT !.outcome = "returned", !.ret = "None",
                            !.out = [k \in DOMAIN dl_d |-> dl_d[k].value]]
    /\ pc' = "idle"
    /\ dl_d' = EmptyDict
    /\ l' = NoVar
    /\ UNCHANGED <<id_counter, Tape_list, nodes, epoch, it, prev, pre, steps, ncalls, appended>>
    /\ UNCHANGED thread_vars

Next ==
    \/ \E value \in Values, name \in NameArgs : NewVariable(value, name)
    \/ \E op \in {"add", "mul", "sub"}, self \in CallerVars, other \in CallerVars :
          Binary(op, self, other)
    \/ \E op \in {"sin", "log"}, self \in CallerVars : Unary(op, self)
    \/ \E op \in {"add", "mul", "sub"}, self \in CallerVars, other \in Foreign :
          BinaryForeign(op, self, other) \/ BinaryForeign(op, other, self)
    \/ \E op \in {"sin", "log"}, self \in Foreign : UnaryForeign(op, self)
    \/ reset_tape
    \/ \E terminal \in CallerVars : GradBegin(terminal)
    \/ GradStep
    \/ GradRaise
    \/ GradReturn

Spec == Init /\ [][Next]_vars

(* ---------------- the backward rules on their own ---------------- *)
\* The rules are checked for every operand pair and every incoming gradient
\* of Values: two Variables are constructed, an arithmetic operator is applied
\* to them, and the closure of the record it appended is called on
\* Variable(dL), as grad calls it (tabe.propagate(grad_outputs)).
ReplayInit ==
    \E a \in Values, b \in Values :
        LET S1 == Variable(St(0, <<>>, <<>>, "ctor", 0), a, NoName)
            S2 == Variable(S1, b, NoName)
        IN  /\ id_counter = S2.c
            /\ Tape_list = S2.t
            /\ nodes = S2.h
            /\ call = Call("Variable", S2.r, NoVar, "returned", "Variable", EmptyDict)
            /\ pre = [c |-> S1.c, t |-> S1.t, n |-> Len(S1.h)]
    /\ epoch = 0
    /\ pc = "idle"
    /\ l = NoVar
    /\ dl_d = EmptyDict
    /\ it = 0
    /\ prev = NoCall
    /\ steps = <<>>
    /\ ncalls = 2
    /\ appended = <<>>
    /\ threads = [t \in Threads |-> NoThread]
    /\ raced = FALSE

\* Tape_list[-1].propagate([Variable(dL)])
ReplayRule(dL) ==
    /\ pc = "idle"
    /\ Len(Tape_list) = 1
    /\ LET tabe == Tape_list[Len(Tape_list)]
           S0 == Variable(Now("ctor"), dL, NoName)
           S1 == [S0 EXCEPT !.o = "grad"]
           d == SetKey(EmptyDict, tabe.outputs[1], S0.r)
           b == Propagate(S1, tabe.propagate, <<S0.r>>)
       IN  /\ id_counter' = b.st.c
           /\ Tape_list' = b.st.t
           /\ nodes' = b.st.h
           /\ steps' = <<Step(S1, d, tabe, Len(Tape_list))>>
           /\ appended' = appended \o Added(b.st)
           /\ call' = Call("propagate", S0.r, NoVar, "returned", "list", EmptyDict)
    /\ prev' = NoCall
    /\ pre' = Snapshot
    /\ ncalls' = ncalls + 1
    /\ UNCHANGED <<epoch, pc, l, dl_d, it>>
    /\ UNCHANGED thread_vars

ReplayNext ==
    \/ \E op \in {"add", "mul", "sub"}, self \in CallerVars, other \in CallerVars :
          Len(Tape_list) = 0 /\ Binary(op, self, other)
    \/ \E dL \in Values : ReplayRule(dL)

ReplaySpec == ReplayInit /\ [][ReplayNext]_vars

(* ---------------- two threads on the one session ---------------- *)
\* Each thread runs "a = Variable(value); b = a op a".  id_generator is
\* three accesses to the global: "id_counter += 1" loads it and stores the
\* sum, and the f-string of the return loads it again.  Tape_list.append is
\* one call of the list method.
caller_vars == <<epoch, pc, l, dl_d, it, call, prev, pre, steps, ncalls>>

\* another thread is between the load and the return of id_generator
Overlaps(t) == \E u \in Threads \ {t} : threads[u].pc \in {"store", "format"}

\* Variable(value) is called: __init__ reaches id_generator
ThreadVariable(t, value) ==
    /\ threads[t].pc = "ready"
    /\ threads[t].self = NoVar
    /\ threads' = [threads EXCEPT ![t].pc = "load", ![t].creating = "ctor", ![t].value = value]
    /\ UNCHANGED <<id_counter, Tape_list, nodes, appended, raced>>
    /\ UNCHANGED caller_vars

\* a op a is called: the value is computed and verbose_init reaches id_generator
ThreadOperator(t, op) ==
    /\ threads[t].pc = "ready"
    /\ threads[t].self # NoVar
    /\ threads' = [threads EXCEPT ![t].pc = "load", ![t].creating = "op", ![t].op = op,
                                  ![t].value = ArithValue(op, threads[t].self, threads[t].self)]
    /\ UNCHANGED <<id_counter, Tape_list, nodes, appended, raced>>
    /\ UNCHANGED caller_vars

\* id_counter += 1, the load
LoadCounter(t) ==
    /\ threads[t].pc = "load"
    /\ threads' = [threads EXCEPT ![t].pc = "store", ![t].tmp = id_counter]
    /\ raced' = (raced \/ Overlaps(t))
    /\ UNCHANGED <<id_counter, Tape_list, nodes, appended>>
    /\ UNCHANGED caller_vars

\* a store that writes back the value it loaded
StoreCounterSame(t) ==
    /\ threads[t].pc = "store"
    /\ id_counter' = threads[t].tmp
    /\ threads' = [threads EXCEPT ![t].pc = "format"]
    /\ raced' = (raced \/ Overlaps(t))
    /\ UNCHANGED <<Tape_list, nodes, appended>>
    /\ UNCHANGED caller_vars

\* id_counter += 1, the store
StoreCounter(t) ==
    /\ threads[t].pc = "store"
    /\ id_counter' = threads[t].tmp + 1
    /\ threads' = [threads EXCEPT ![t].pc = "format"]
    /\ raced' = (raced \/ Overlaps(t))
    /\ UNCHANGED <<Tape_list, nodes, appended>>
    /\ UNCHANGED caller_vars

\* return f"v_{id_counter}": the global is loaded again, and __init__ ends
FormatName(t) ==
    /\ threads[t].pc = "format"
    /\ LET v == Var(IdName(id_counter), threads[t].value)
       IN  /\ nodes' = Append(nodes, [name |-> v.name, value |-> v.value,
                                      origin |-> threads[t].creating, epoch |-> epoch])
           /\ threads' = IF threads[t].creating = "ctor"
                         THEN [threads EXCEPT ![t].pc = "ready", ![t].self = v]
                         ELSE [threads EXCEPT ![t].pc = "append", ![t].x = v]
    /\ raced' = (raced \/ Overlaps(t))
    /\ UNCHANGED <<id_counter, Tape_list, appended>>
    /\ UNCHANGED caller_vars

\* Tape_list.append(tape), and the operator returns
AppendTape(t) ==
    /\ threads[t].pc = "append"
    /\ Tape_list' = Append(Tape_list,
                           Tape(<<threads[t].self.name, threads[t].self.name>>,
                                <<threads[t].x.name>>,
                                Closure(threads[t].op, threads[t].self, threads[t].self)))
    /\ appended' = Append(appended, Tape_list'[Len(Tape_list')])
    /\ threads' = [threads EXCEPT ![t].pc = "done"]
    /\ UNCHANGED <<id_counter, nodes, raced>>
    /\ UNCHANGED caller_vars

ThreadNext ==
    \E t \in Threads :
        \/ \E value \in Values : ThreadVariable(t, value)
        \/ \E op \in {"add", "mul", "sub"} : ThreadOperator(t, op)
        \/ LoadCounter(t)
        \/ StoreCounter(t)
        \/ FormatName(t)
        \/ AppendTape(t)

ThreadSpec == Init /\ [][ThreadNext]_vars

(* ---------------- notions used by the properties ---------------- *)
ArithOps == {"add", "sub", "mul"}
Operators == ArithOps \cup {"sin", "log"}

\* grad's loop is exhausted: the call completes (it only prints and returns)
GradComplete == pc = "grad" /\ it = 0
\* the last call was a grad call that returned
GradReturned == pc = "idle" /\ call.op = "grad" /\ call.outcome = "returned"
\* the last call was an operator application that returned
OpReturned == pc = "idle" /\ call.op \in Operators /\ call.outcome = "returned"

\* the input slots <<step, position>> of processed records that name n
SlotsOf(n) ==
    {q \in (DOMAIN steps) \X (1..2) :
        /\ q[2] <= Len(steps[q[1]].tabe.inputs)
        /\ steps[q[1]].tabe.inputs[q[2]] = n}
InputNames ==
    UNION {{steps[i].tabe.inputs[k] : k \in DOMAIN steps[i].tabe.inputs} : i \in DOMAIN steps}
\* every processed record is add, sub or mul and every gradient is an integer
AllArith ==
    \A i \in DOMAIN steps :
        /\ steps[i].tabe.propagate.op \in ArithOps
        /\ \A k \in DOMAIN steps[i].grad_inputs : IsNum(steps[i].grad_inputs[k])
        /\ \A k \in DOMAIN steps[i].grad_outputs : IsNum(steps[i].grad_outputs[k])

RECURSIVE SumContrib(_)
SumContrib(Q) ==
    IF Q = {} THEN 0
    ELSE LET q == CHOOSE x \in Q : TRUE
         IN  steps[q[1]].grad_inputs[q[2]].n + SumContrib(Q \ {q})

\* the operand names of the last operator application, in operand order
OperandNames ==
    IF call.op \in ArithOps THEN <<call.self.name, call.other.name>> ELSE <<call.self.name>>

\* the records of the log that have name n among their inputs
Consumers(log, n) == {j \in DOMAIN log : \E k \in DOMAIN log[j].inputs : log[j].inputs[k] = n}
\* the records grad has processed so far in the running call
Processed == {steps[i].idx : i \in DOMAIN steps}

(* ---------------- C7 ---------------- *)
\* C7: for integer operand values a, b and an integer incoming gradient dL,
\* the backward rule recorded by add returns [dL, dL], the one recorded by
\* sub returns [dL, -dL] and the one recorded by mul returns [dL*b, dL*a],
\* a and b being the operand values of the forward application.
BackwardRules ==
    \A i \in DOMAIN steps :
        LET p == steps[i].tabe.propagate
            dL == steps[i].grad_outputs[1]
            a == p.self.value
            b == p.other.value
        IN  (p.op \in ArithOps /\ IsNum(dL) /\ IsNum(a) /\ IsNum(b)) =>
                steps[i].grad_inputs =
                    CASE p.op = "add" -> <<dL, dL>>
                      [] p.op = "sub" -> <<dL, Num(0 - dL.n)>>
                      [] OTHER        -> <<Num(dL.n * b.n), Num(dL.n * a.n)>>

\* a mul record with different operand values was replayed with an incoming
\* gradient other than 0 and 1
BackwardRulesWitness ==
    \E i \in DOMAIN steps :
        /\ steps[i].tabe.propagate.op = "mul"
        /\ IsNum(steps[i].tabe.propagate.self.value)
        /\ IsNum(steps[i].tabe.propagate.other.value)
        /\ steps[i].tabe.propagate.self.value # steps[i].tabe.propagate.other.value
        /\ IsNum(steps[i].grad_outputs[1])
        /\ steps[i].grad_outputs[1].n \notin {0, 1}

(* ---------------- C1 ---------------- *)
\* C1: when grad completes on a log of add, sub and mul records over integer
\* values, the gradient recorded for a name that fills two or more input
\* slots equals the sum of the contributions the backward rules returned for
\* those slots (2 for x in z = x + x).
AccumulationLaw ==
    (GradComplete /\ AllArith) =>
        \A n \in InputNames :
            Cardinality(SlotsOf(n)) >= 2 =>
                /\ HasKey(dl_d, n)
                /\ dl_d[n].value = Num(SumContrib(SlotsOf(n)))

(* ---------------- C2 ---------------- *)
\* C2: when a record is processed and the gradient of its output is read,
\* every record of the log that has that output among its inputs has already
\* been processed.
ReverseOrderSoundness ==
    (pc = "grad" /\ it >= 1 /\ Raises(dl_d, Tape_list[it]) = "none") =>
        \A j \in Consumers(Tape_list, Tape_list[it].outputs[1]) : j \in Processed

(* ---------------- C3 ---------------- *)
\* C3: a record whose output has no entry in the gradient map does not make
\* grad fail: no grad call ends in a KeyError.
DeadBranchTolerated ==
    ~(pc = "idle" /\ call.op = "grad" /\ call.outcome = "KeyError")

(* ---------------- C4 ---------------- *)
\* C4: after grad returns, the log and the identity counter are what they
\* were when it was called.
GradLeavesSessionUnchanged ==
    GradReturned => (Tape_list = pre.t /\ id_counter = pre.c)

(* ---------------- C5 ---------------- *)
\* C5: a grad call that directly follows a returned grad call on the same
\* terminal returns as well, with the same gradient for every identity.
SecondGradSame ==
    (pc = "idle" /\ call.op = "grad" /\ prev.op = "grad"
        /\ prev.outcome = "returned" /\ prev.self = call.self) =>
            (call.outcome = "returned" /\ call.out = prev.out)

(* ---------------- C6 ---------------- *)
\* C6: a grad call that completes returns a mapping that holds the terminal
\* and every identity that is an input of a record of the log.
GradReturnsMapping ==
    GradReturned =>
        /\ call.ret = "dict"
        /\ call.self.name \in DOMAIN call.out
        /\ \A j \in DOMAIN pre.t : \A k \in DOMAIN pre.t[j].inputs :
              pre.t[j].inputs[k] \in DOMAIN call.out

(* ---------------- C8 ---------------- *)
\* C8: any two distinct Variables created since the last reset have
\* different names.
UniqueIdentities ==
    \A i, j \in DOMAIN nodes :
        (i # j /\ nodes[i].epoch = epoch /\ nodes[j].epoch = epoch) =>
            nodes[i].name # nodes[j].name

(* ---------------- C9 ---------------- *)
\* C9: every input of a record names a Variable created before the record's
\* output, and the output of a record is neither an input nor an output of
\* an earlier record.
CausalOrder ==
    \A j \in DOMAIN Tape_list :
        /\ \A k \in DOMAIN Tape_list[j].inputs :
              \E a, b \in DOMAIN nodes :
                  /\ a < b
                  /\ nodes[a].name = Tape_list[j].inputs[k]
                  /\ nodes[b].name = Tape_list[j].outputs[1]
        /\ \A i \in 1..(j - 1) :
              /\ Tape_list[j].outputs[1] # Tape_list[i].outputs[1]
              /\ \A k \in DOMAIN Tape_list[i].inputs :
                    Tape_list[j].outputs[1] # Tape_list[i].inputs[k]

(* ---------------- C10 ---------------- *)
\* C10: an operator application that returns has created one Variable, whose
\* name no Variable created since the last reset bears, and has appended one
\* record: the operand names in operand order, and the new name as output.
OperatorAppendsOneRecord ==
    OpReturned =>
        /\ Len(nodes) = pre.n + 1
        /\ \A i \in 1..pre.n :
              nodes[i].epoch = epoch => nodes[i].name # nodes[pre.n + 1].name
        /\ Len(Tape_list) = Len(pre.t) + 1
        /\ SubSeq(Tape_list, 1, Len(pre.t)) = pre.t
        /\ Tape_list[Len(Tape_list)].inputs = OperandNames
        /\ Tape_list[Len(Tape_list)].outputs = <<nodes[pre.n + 1].name>>

(* ---------------- C11 ---------------- *)
\* C11: no Variable created after a reset_tape bears the name of a Variable
\* created before it.
IdentitiesDisjointAcrossReset ==
    \A i, j \in DOMAIN nodes :
        nodes[i].epoch < nodes[j].epoch => nodes[i].name # nodes[j].name

(* ---------------- C13 ---------------- *)
\* C13: log applied to a Variable whose value is a number <= 0 does not
\* return: no log call on such a value ends with a Variable returned.
LogDomainRejected ==
    ~(OpReturned /\ call.op = "log" /\ IsNum(call.self.value) /\ call.self.value.n <= 0)

(* ---------------- C16 ---------------- *)
\* C16: after a grad call that raised, the log is what it was when the call
\* began.
FailedGradLeavesLog ==
    (pc = "idle" /\ call.op = "grad" /\ call.outcome \notin {"returned", "running"}) =>
        Tape_list = pre.t

(* ---------------- C17 ---------------- *)
\* v is held only as a Variable created before the most recent reset_tape
Stale(v) ==
    /\ \E i \in DOMAIN nodes : VarOf(nodes[i]) = v
    /\ \A i \in DOMAIN nodes : VarOf(nodes[i]) = v => nodes[i].epoch < epoch

\* C17: an operator application or a grad call whose argument is a Variable
\* created before the most recent reset_tape does not return: it is rejected.
StaleNodeRejected ==
    (pc = "idle" /\ call.op \in Operators \cup {"grad"}
        /\ (Stale(call.self) \/ (call.op \in ArithOps /\ Stale(call.other)))) =>
            call.outcome # "returned"

(* ---------------- C19 ---------------- *)
\* C19: a grad call ends having processed exactly the records that were in
\* the log when it began, each once, in reverse append order.
GradProcessesSnapshot ==
    (pc = "idle" /\ call.op = "grad") =>
        [i \in 1..Len(steps) |-> steps[i].idx] =
            [i \in 1..Len(pre.t) |-> Len(pre.t) - i + 1]

(* ---------------- C12 ---------------- *)
\* C12: reset_tape leaves the log empty; the log holds exactly the records
\* appended since the last reset_tape, and every record a grad call
\* processes is one of them.
ResetStartsEmptyLog ==
    /\ (pc = "idle" /\ call.op = "reset_tape") => Tape_list = <<>>
    /\ Tape_list = appended
    /\ call.op = "grad" =>
          \A i \in DOMAIN steps :
              /\ steps[i].idx \in DOMAIN appended
              /\ steps[i].tabe = appended[steps[i].idx]
\* a grad call returned after a reset_tape that discarded a record
GradAfterResetWitness ==
    /\ GradReturned
    /\ epoch >= 1
    /\ \E i \in DOMAIN nodes : nodes[i].origin = "op" /\ nodes[i].epoch < epoch

(* ---------------- C14 ---------------- *)
IsLiteral(x) == x.name[1] = "literal"

\* C14: add, sub or mul on a Variable and a raw number returns a Variable and
\* appends one record.
LiteralOperandLifted ==
    (pc = "idle" /\ call.op \in ArithOps
        /\ ((IsLiteral(call.other) /\ IsVariable(call.self))
            \/ (IsLiteral(call.self) /\ IsVariable(call.other)))) =>
        /\ call.outcome = "returned"
        /\ Len(Tape_list) = Len(pre.t) + 1

(* ---------------- C15 ---------------- *)
\* neither a Variable nor a raw number
Unknown(x) == ~IsVariable(x) /\ ~IsLiteral(x)

\* C15: an operator applied to an operand that is neither a Variable nor a
\* raw number raises, and id_counter and Tape_list are as before the call.
UnknownOperandRejected ==
    (pc = "idle" /\ call.op \in Operators /\ (Unknown(call.self) \/ Unknown(call.other))) =>
        /\ call.outcome # "returned"
        /\ id_counter = pre.c
        /\ Tape_list = pre.t

(* ---------------- C18 ---------------- *)
IsPrefix(s, t) == Len(s) <= Len(t) /\ SubSeq(t, 1, Len(s)) = s

\* C18: every step other than reset_tape leaves the log it found as a prefix
\* of the log it leaves.
LogGrowsAtEnd == [][epoch' = epoch => IsPrefix(Tape_list, Tape_list')]_vars
\* a grad call has appended records to the log it found
LogGrewWitness ==
    call.op = "grad" /\ Len(steps) >= 1 /\ Len(Tape_list) > Len(pre.t)
        /\ IsPrefix(pre.t, Tape_list)

(* ---------------- C20 ---------------- *)
\* C20: with two threads interleaved at the loads and stores of id_counter,
\* two Variables receive one name; the names are distinct whenever no two
\* executions of id_generator overlapped.
SerialIdentitiesUnique ==
    ~raced => \A i, j \in DOMAIN nodes : i # j => nodes[i].name # nodes[j].name
\* two threads have each created a Variable and the two bear one name
DuplicateIdentityWitness ==
    /\ raced
    /\ threads[1].self # NoVar
    /\ threads[2].self # NoVar
    /\ threads[1].self.name = threads[2].self.name

====
